---- MODULE Spec2Model ----
(***************************************************************************)
(* Model of the current sweep of experiment.rs (run_current_sweep): the    *)
(* CLD1015 laser diode controller is stepped through a current ramp while  *)
(* the HP-70952B optical spectrum analyzer is triggered and queried at     *)
(* every point; results go to a summary CSV and to per-point trace files.  *)
(*                                                                         *)
(* Representation.                                                         *)
(*  - A response line is a sequence of one-character strings.              *)
(*  - An f64 is a decimal [m, e] standing for m * 10^e, or NaN.            *)
(*  - start, stop and step of a plan are integers in units of 10^e10 mA:  *)
(*    whole milliamps in Spec, thousandths of a milliamp in SpecFine.      *)
(*  - A formatted number "{:.d}" is the integer value * 10^d.              *)
(*  - log is the sequence of instrument operations issued so far:          *)
(*    <<"write", instrument, command, argument>>, <<"read", instrument,    *)
(*    "", 0>> and <<"sleep", "", "", milliseconds>>.  A write or read that *)
(*    returns an Err is in the log (it was issued) and sets status "err".  *)
(*  - failed_at and unparseable are the transcript of what the transports  *)
(*    did: the position in log of the operation that returned an Err (0 if *)
(*    none), and which of the lines read were not numbers.                 *)
(*  - mpm is the MPM210H power meter driver of mpm210h.rs, which the sweep *)
(*    never opens: its stored module and port and what its last call did.  *)
(*                                                                         *)
(* Spec is the sweep, SpecFine the sweep with a step of 0.002 mA,          *)
(* SpecTrace the trace mapping of one point, SpecMpm the power meter.      *)
(***************************************************************************)
EXTENDS Integers, Sequences, FiniteSets, TLC

VARIABLES plan, pc, status, i, num_points, num_trace_points, log,
          peak_wavelength_nm, peak_power_dbm, trace_data,
          summary, traces, stdout_warn, err_resp, failed_at, unparseable,
          mpm

vars == <<plan, pc, status, i, num_points, num_trace_points, log,
          peak_wavelength_nm, peak_power_dbm, trace_data,
          summary, traces, stdout_warn, err_resp, failed_at, unparseable,
          mpm>>

-----------------------------------------------------------------------------
(* Bounds of the model *)

MaxStop == 10

MaxOldRows == 1

(* the most fields in a line answered to TRA? or READ? taken on its own *)
MaxFields == 5

(* the largest trace length answered to MDS? in the trace mapping taken on *)
(* its own                                                                 *)
MaxN == 4

-----------------------------------------------------------------------------
(* Text: trimming and parsing, as str::trim and str::parse do them *)

Digits == <<"0", "1", "2", "3", "4", "5", "6", "7", "8", "9">>

IsDigit(c) == \E d \in 1..10 : Digits[d] = c

DigitVal(c) == (CHOOSE d \in 1..10 : Digits[d] = c) - 1

IsSpace(c) == c \in {" ", "\n", "\r", "\t"}

RECURSIVE TrimStart(_)
TrimStart(s) ==
    IF s # <<>> /\ IsSpace(Head(s)) THEN TrimStart(Tail(s)) ELSE s

RECURSIVE TrimEnd(_)
TrimEnd(s) ==
    IF s # <<>> /\ IsSpace(s[Len(s)])
    THEN TrimEnd(SubSeq(s, 1, Len(s) - 1))
    ELSE s

Trim(s) == TrimEnd(TrimStart(s))

AllDigits(s) == s # <<>> /\ \A k \in 1..Len(s) : IsDigit(s[k])

RECURSIVE DigitsVal(_)
DigitsVal(s) ==
    IF s = <<>> THEN 0
    ELSE 10 * DigitsVal(SubSeq(s, 1, Len(s) - 1)) + DigitVal(s[Len(s)])

RECURSIVE Pow10(_)
Pow10(n) == IF n <= 0 THEN 1 ELSE 10 * Pow10(n - 1)

IndexOf(s, cs) ==
    IF \E k \in 1..Len(s) : s[k] \in cs
    THEN CHOOSE k \in 1..Len(s) : s[k] \in cs /\ \A j \in 1..(k - 1) : s[j] \notin cs
    ELSE 0

(* s.parse::<usize>(): an optional "+" and at least one digit *)
ParseUsize(s) ==
    LET body == IF s # <<>> /\ Head(s) = "+" THEN Tail(s) ELSE s
    IN  IF AllDigits(body) THEN [ok |-> TRUE, val |-> DigitsVal(body)]
        ELSE [ok |-> FALSE, val |-> 0]

(* s.parse::<f64>() on decimal literals: [sign] digits [. digits]          *)
(* [(e|E) [sign] digits]; the value is the decimal m * 10^e                *)
ParseF64(s) ==
    LET neg   == s # <<>> /\ Head(s) = "-"
        body  == IF s # <<>> /\ Head(s) \in {"+", "-"} THEN Tail(s) ELSE s
        ePos  == IndexOf(body, {"e", "E"})
        mant  == IF ePos = 0 THEN body ELSE SubSeq(body, 1, ePos - 1)
        expo  == IF ePos = 0 THEN <<>> ELSE SubSeq(body, ePos + 1, Len(body))
        eNeg  == expo # <<>> /\ Head(expo) = "-"
        eBody == IF expo # <<>> /\ Head(expo) \in {"+", "-"} THEN Tail(expo) ELSE expo
        dot   == IndexOf(mant, {"."})
        ip    == IF dot = 0 THEN mant ELSE SubSeq(mant, 1, dot - 1)
        fp    == IF dot = 0 THEN <<>> ELSE SubSeq(mant, dot + 1, Len(mant))
        mOk   == /\ ip \o fp # <<>>
                 /\ \A k \in 1..Len(ip) : IsDigit(ip[k])
                 /\ \A k \in 1..Len(fp) : IsDigit(fp[k])
        eOk   == ePos = 0 \/ AllDigits(eBody)
        eVal  == IF ePos = 0 THEN 0
                 ELSE IF eNeg THEN 0 - DigitsVal(eBody) ELSE DigitsVal(eBody)
        mVal  == DigitsVal(ip \o fp)
    IN  IF mOk /\ eOk
        THEN [ok |-> TRUE,
              val |-> [nan |-> FALSE,
                       m |-> IF neg THEN 0 - mVal ELSE mVal,
                       e |-> eVal - Len(fp)]]
        ELSE [ok |-> FALSE, val |-> [nan |-> FALSE, m |-> 0, e |-> 0]]

(* Result::unwrap_or *)
UnwrapOr(r, default) == IF r.ok THEN r.val ELSE default

F(m, e) == [nan |-> FALSE, m |-> m, e |-> e]

(* x * 10^k for an f64 x *)
Scale10(x, k) == IF x.nan \/ x.m = 0 THEN x ELSE [x EXCEPT !.e = x.e + k]

(* round-half-away division of an integer by a positive power of ten *)
RoundDiv(n, d) ==
    IF n >= 0 THEN (2 * n + d) \div (2 * d)
    ELSE 0 - ((2 * (0 - n) + d) \div (2 * d))

(* format!("{:.d}", x): the text is represented by <<"num", x * 10^d>>,   *)
(* <<"NaN", 0>> for a NaN                                                  *)
Fmt(x, d) ==
    IF x.nan THEN <<"NaN", 0>>
    ELSE IF x.e + d >= 0 THEN <<"num", x.m * Pow10(x.e + d)>>
    ELSE <<"num", RoundDiv(x.m, Pow10(0 - (x.e + d)))>>

(* s.split(','): the fields between the commas, at least one field *)
RECURSIVE Split(_)
Split(s) ==
    LET c == IndexOf(s, {","})
    IN  IF c = 0 THEN <<s>>
        ELSE <<SubSeq(s, 1, c - 1)>> \o Split(SubSeq(s, c + 1, Len(s)))

-----------------------------------------------------------------------------
(* Inputs: the sweep plans and the lines the instruments may answer *)

Starts == {0, 5}

Stops == {3, 5, MaxStop}

Steps == {0 - 5, 0, 5}

Dwells == {50}

(* the power of ten of the unit of start, stop and step: 0 for whole mA *)
Units == {0}

Plans == [start : Starts, stop : Stops, step : Steps, dwell : Dwells, e10 : Units]

MdsLines == { <<"3", "\n">>, <<"?">> }

DoneLines == { <<"1", "\n">>, <<" ", "1", "\r", "\n">>, <<"0", "\n">>, <<"+", "1", "\n">> }

WlLines == { <<"9", "8", "E", "-", "8", "\n">>, <<"\n">> }

PwLines == { <<"-", "1", "2", ".", "5", "\n">>, <<"-", "-", "\n">> }

TraceLines == { <<"-", "5", ",", "x", ",", "-", "7", ",", "-", "9", "\n">>, <<"-", "5", "\n">> }

(* the lines above that are not numbers; in the bad trace line it is the  *)
(* second field                                                            *)
BadMdsLines == { <<"?">> }

BadWlLines == { <<"\n">> }

BadPwLines == { <<"-", "-", "\n">> }

BadTraceLines == { <<"-", "5", ",", "x", ",", "-", "7", ",", "-", "9", "\n">> }

ErrLines == { <<"0", "\n">>, <<"-", "1", "1", "3", "\n">> }

Header == <<"Current (mA)", "Peak Wavelength (nm)", "Peak Power (dBm)">>

TraceHeader == <<"Wavelength (nm)", "Power (dBm)">>

OldRow == <<<<"num", 4200>>, <<"num", 9750000>>, <<"num", 0 - 3000>>>>

RECURSIVE OldRows(_)
OldRows(n) == IF n = 0 THEN <<>> ELSE Append(OldRows(n - 1), OldRow)

OldSummaries == {<<>>} \cup { <<Header>> \o OldRows(n) : n \in 1..MaxOldRows }

-----------------------------------------------------------------------------
(* Instrument operations as they appear in log *)

NoArg == <<"none", 0>>

W(inst, cmd) == <<"write", inst, cmd, NoArg>>

WA(inst, cmd, arg) == <<"write", inst, cmd, arg>>

R(inst) == <<"read", inst, "", NoArg>>

Sleep(ms) == <<"sleep", "", "", <<"ms", ms>>>>

(* write_all whose Err is dropped instead of returned with "?" *)
WriteAll_ErrIgnored(here, next, ev) ==
    /\ pc = here
    /\ status = "running"
    /\ log' = Append(log, ev)
    /\ \E ok \in BOOLEAN :
         /\ pc' = next
         /\ status' = status
         /\ failed_at' = IF ok THEN failed_at ELSE Len(log')

(* instrument.write_all(cmd).map_err(io_to_vs_err)?                        *)
WriteAll(here, next, ev) ==
    /\ pc = here
    /\ status = "running"
    /\ log' = Append(log, ev)
    /\ \E ok \in BOOLEAN :
         IF ok THEN pc' = next /\ status' = status /\ failed_at' = failed_at
               ELSE pc' = pc /\ status' = "err" /\ failed_at' = Len(log')

(* std::thread::sleep(Duration::from_millis(ms)) *)
ThreadSleep(here, next, ms) ==
    /\ pc = here
    /\ status = "running"
    /\ log' = Append(log, Sleep(ms))
    /\ pc' = next
    /\ status' = status
    /\ failed_at' = failed_at

-----------------------------------------------------------------------------
(* The point count of line 30 *)

(* floor(a / b) for b # 0 *)
FloorDiv(a, b) == IF b > 0 THEN a \div b ELSE (0 - a) \div (0 - b)

(* ((stop_ma - start_ma) / step_ma).floor() as usize: the cast saturates,  *)
(* a NaN becomes 0; "max" stands for usize::MAX                            *)
FloorAsUsize(p) ==
    IF p.step # 0
    THEN LET q == FloorDiv(p.stop - p.start, p.step)
         IN  [max |-> FALSE, n |-> IF q < 0 THEN 0 ELSE q]
    ELSE IF p.stop - p.start > 0 THEN [max |-> TRUE, n |-> 0]
    ELSE [max |-> FALSE, n |-> 0]

(* the ramp started one step late *)
CurrentMa_OffByOne(p, k) == F(p.start + (k + 1) * p.step, p.e10)

(* start_ma + (i as f64 * step_ma) *)
CurrentMa(p, k) == F(p.start + k * p.step, p.e10)

(* format!("... AMPLitude {:.6}\n", current_ma / 1000.0) *)
AmplitudeArg(ma) == Fmt(Scale10(ma, 0 - 3), 6)

-----------------------------------------------------------------------------
(* State after the caller has opened both instruments; the summary file    *)
(* may be left over from an earlier run.                                   *)

NoF64 == F(0, 0)

(* the power meter before MPM210H::connect: no driver object exists; the  *)
(* sweep never opens it                                                    *)
NoMpm ==
    [open |-> FALSE, module |-> 0, port |-> 0, op |-> "none",
     arg_n |-> 0, arg_s |-> "", arg_x |-> NoF64,
     before |-> <<0, 0>>, io |-> <<>>, ret |-> "none", val |-> NoF64,
     response |-> <<>>, fields |-> <<>>]

Init ==
    /\ plan \in Plans
    /\ pc = "create_summary"
    /\ status = "running"
    /\ i = 0
    /\ num_points = 0
    /\ num_trace_points = 0
    /\ log = <<>>
    /\ peak_wavelength_nm = NoF64
    /\ peak_power_dbm = NoF64
    /\ trace_data = <<>>
    /\ summary \in OldSummaries
    /\ traces = <<>>
    /\ stdout_warn = {}
    /\ err_resp = <<>>
    /\ failed_at = 0
    /\ unparseable = {}
    /\ mpm = NoMpm

-----------------------------------------------------------------------------
(* Setup: lines 19-65 *)

Files == <<summary, traces>>

Locals == <<peak_wavelength_nm, peak_power_dbm, trace_data>>

Counts == <<i, num_points, num_trace_points>>

(* the summary file opened for appending instead of created *)
CreateSummary_Append ==
    /\ pc = "create_summary"
    /\ status = "running"
    /\ summary' = Append(summary, Header)
    /\ pc' = "create_trace_dir"
    /\ UNCHANGED <<mpm, plan, status, Counts, log, Locals, traces, stdout_warn, err_resp,
                   failed_at, unparseable>>

(* File::create("current_sweep_results.csv").unwrap(); writeln!(header).unwrap() *)
CreateSummary ==
    /\ pc = "create_summary"
    /\ status = "running"
    /\ \E outcome \in {"ok", "create_failed", "write_failed"} :
         CASE outcome = "ok" ->
                /\ summary' = <<Header>>
                /\ pc' = "create_trace_dir"
                /\ status' = status
           [] outcome = "create_failed" ->
                /\ summary' = summary
                /\ pc' = pc
                /\ status' = "panic"
           [] outcome = "write_failed" ->
                /\ summary' = <<>>
                /\ pc' = pc
                /\ status' = "panic"
    /\ UNCHANGED <<mpm, plan, Counts, log, Locals, traces, stdout_warn, err_resp, failed_at, unparseable>>

(* create_dir_all(trace_dir).unwrap_or_else(|e| println!("Warning: ...")) *)
CreateTraceDir ==
    /\ pc = "create_trace_dir"
    /\ status = "running"
    /\ \E ok \in BOOLEAN :
         stdout_warn' = IF ok THEN stdout_warn
                        ELSE stdout_warn \cup {<<"trace_dir", 0>>}
    /\ pc' = "calc_num_points"
    /\ UNCHANGED <<mpm, plan, status, Counts, log, Locals, Files, err_resp, failed_at, unparseable>>

(* let num_points = (...).floor() as usize + 1: usize::MAX + 1 panics in a *)
(* build with overflow checks and wraps to 0 in a build without them       *)
CalcNumPoints ==
    /\ pc = "calc_num_points"
    /\ status = "running"
    /\ LET q == FloorAsUsize(plan)
       IN  IF q.max
           THEN \E overflow_checks \in BOOLEAN :
                  IF overflow_checks
                  THEN /\ status' = "panic"
                       /\ pc' = pc
                       /\ num_points' = num_points
                  ELSE /\ status' = status
                       /\ pc' = "sngls"
                       /\ num_points' = 0
           ELSE /\ status' = status
                /\ pc' = "sngls"
                /\ num_points' = q.n + 1
    /\ UNCHANGED <<mpm, plan, i, num_trace_points, log, Locals, Files, stdout_warn, err_resp, failed_at, unparseable>>

Rest == <<plan, Counts, Locals, Files, stdout_warn, err_resp, unparseable, mpm>>

(* osa.write_all(b"SNGLS;\n") *)
SetSingleSweep ==
    /\ WriteAll("sngls", "centerwl", W("osa", "SNGLS;"))
    /\ UNCHANGED Rest

(* osa.write_all(b"CENTERWL 980NM;SPANWL 20NM;\n") *)
SetCenterSpan ==
    /\ WriteAll("centerwl", "mds", W("osa", "CENTERWL 980NM;SPANWL 20NM;"))
    /\ UNCHANGED Rest

(* osa.write_all(b"MDS?;\n") *)
QueryMds ==
    /\ WriteAll("mds", "read_mds", W("osa", "MDS?;"))
    /\ UNCHANGED Rest

DefaultTracePoints == 800

(* reader.read_line(&mut mds_response)?; parse::<usize>().unwrap_or(800) *)
ReadMds ==
    /\ pc = "read_mds"
    /\ status = "running"
    /\ log' = Append(log, R("osa"))
    /\ \/ /\ status' = "err"
          /\ failed_at' = Len(log')
          /\ pc' = pc
          /\ unparseable' = unparseable
          /\ num_trace_points' = num_trace_points
       \/ \E mds_response \in MdsLines :
            /\ num_trace_points' =
                 UnwrapOr(ParseUsize(Trim(mds_response)), DefaultTracePoints)
            /\ pc' = "laser_off"
            /\ status' = status
            /\ failed_at' = failed_at
            /\ unparseable' = IF mds_response \in BadMdsLines
                               THEN unparseable \cup {<<"mds", 0>>}
                               ELSE unparseable
    /\ UNCHANGED <<mpm, plan, i, num_points, Locals, Files, stdout_warn, err_resp>>

(* cld1015.write_all(b"OUTPut:STATe 0\n") *)
LaserOff ==
    /\ WriteAll("laser_off", "settle_off", W("cld1015", "OUTPut:STATe 0"))
    /\ UNCHANGED Rest

SettleMs == 500

(* std::thread::sleep(Duration::from_millis(500)) *)
SettleOff ==
    /\ ThreadSleep("settle_off", "laser_on", SettleMs)
    /\ UNCHANGED Rest

(* cld1015.write_all(b"OUTPut:STATe 1\n") *)
LaserOn ==
    /\ WriteAll("laser_on", "settle_on", W("cld1015", "OUTPut:STATe 1"))
    /\ UNCHANGED Rest

(* the second settle delay left out *)
SettleOn_NoSleep ==
    /\ pc = "settle_on"
    /\ status = "running"
    /\ pc' = "loop"
    /\ UNCHANGED <<status, log, failed_at, Rest>>

(* std::thread::sleep(Duration::from_millis(500)) *)
SettleOn ==
    /\ ThreadSleep("settle_on", "loop", SettleMs)
    /\ UNCHANGED Rest

-----------------------------------------------------------------------------
(* One sweep point: lines 68-159 *)

current_ma == CurrentMa(plan, i)

(* for i in 0..num_points { cld1015.write_all(cmd.as_bytes()) *)
SetCurrent ==
    /\ i < num_points
    /\ WriteAll("loop", "dwell",
                WA("cld1015", "SOURce:CURRent:LEVel:IMMediate:AMPLitude",
                   AmplitudeArg(current_ma)))
    /\ UNCHANGED Rest

(* the dwell left out *)
Dwell_NoSleep ==
    /\ pc = "dwell"
    /\ status = "running"
    /\ pc' = "ts_done"
    /\ UNCHANGED <<status, log, failed_at, Rest>>

(* std::thread::sleep(Duration::from_millis(dwell_time_ms)) *)
Dwell ==
    /\ ThreadSleep("dwell", "ts_done", plan.dwell)
    /\ UNCHANGED Rest

(* osa.write_all(b"TS;DONE?;\n") *)
TakeSweep ==
    /\ WriteAll("ts_done", "read_done", W("osa", "TS;DONE?;"))
    /\ UNCHANGED Rest

(* a completion answer other than "1" treated as an error *)
ReadDone_Gating ==
    /\ pc = "read_done"
    /\ status = "running"
    /\ log' = Append(log, R("osa"))
    /\ \/ /\ status' = "err"
          /\ failed_at' = Len(log')
          /\ pc' = pc
          /\ stdout_warn' = stdout_warn
       \/ \E done_resp \in DoneLines :
            /\ failed_at' = failed_at
            /\ IF Trim(done_resp) # <<"1">>
               THEN /\ stdout_warn' = stdout_warn \cup {<<"not_done", i>>}
                    /\ pc' = pc
                    /\ status' = "err"
               ELSE /\ stdout_warn' = stdout_warn
                    /\ pc' = "mkpk"
                    /\ status' = status
    /\ UNCHANGED <<mpm, plan, Counts, Locals, Files, err_resp, unparseable>>

(* reader.read_line(&mut done_resp)?; if done_resp.trim() != "1" { warn } *)
ReadDone ==
    /\ pc = "read_done"
    /\ status = "running"
    /\ log' = Append(log, R("osa"))
    /\ \/ /\ status' = "err"
          /\ failed_at' = Len(log')
          /\ pc' = pc
          /\ stdout_warn' = stdout_warn
       \/ \E done_resp \in DoneLines :
            /\ stdout_warn' = IF Trim(done_resp) # <<"1">>
                              THEN stdout_warn \cup {<<"not_done", i>>}
                              ELSE stdout_warn
            /\ pc' = "mkpk"
            /\ status' = status
            /\ failed_at' = failed_at
    /\ UNCHANGED <<mpm, plan, Counts, Locals, Files, err_resp, unparseable>>

(* osa.write_all(b"MKPK HI;\n") *)
MarkPeak ==
    /\ WriteAll("mkpk", "mkwl", W("osa", "MKPK HI;"))
    /\ UNCHANGED Rest

(* osa.write_all(b"MKWL?;\n") *)
QueryPeakWl ==
    /\ WriteAll("mkwl", "read_mkwl", W("osa", "MKWL?;"))
    /\ UNCHANGED Rest

PeakWlFallback == F(0, 0)

PeakPowerFallback == F(0 - 100, 0)

(* read_line(&mut peak_wavelength)?; parse::<f64>().unwrap_or(0.0) * 1.0e9 *)
ReadPeakWl ==
    /\ pc = "read_mkwl"
    /\ status = "running"
    /\ log' = Append(log, R("osa"))
    /\ \/ /\ status' = "err"
          /\ failed_at' = Len(log')
          /\ pc' = pc
          /\ unparseable' = unparseable
          /\ peak_wavelength_nm' = peak_wavelength_nm
       \/ \E peak_wavelength \in WlLines :
            /\ peak_wavelength_nm' =
                 Scale10(UnwrapOr(ParseF64(Trim(peak_wavelength)), PeakWlFallback), 9)
            /\ pc' = "mka"
            /\ status' = status
            /\ failed_at' = failed_at
            /\ unparseable' = IF peak_wavelength \in BadWlLines
                               THEN unparseable \cup {<<"wl", i>>}
                               ELSE unparseable
    /\ UNCHANGED <<mpm, plan, Counts, peak_power_dbm, trace_data, Files, stdout_warn, err_resp>>

(* osa.write_all(b"MKA?;\n") *)
QueryPeakPower ==
    /\ WriteAll("mka", "read_mka", W("osa", "MKA?;"))
    /\ UNCHANGED Rest

(* the parse error returned with "?" instead of unwrap_or(-100.0) *)
ReadPeakPower_ParseErrorReturned ==
    /\ pc = "read_mka"
    /\ status = "running"
    /\ log' = Append(log, R("osa"))
    /\ \/ /\ status' = "err"
          /\ failed_at' = Len(log')
          /\ pc' = pc
          /\ unparseable' = unparseable
          /\ peak_power_dbm' = peak_power_dbm
       \/ \E peak_power \in PwLines :
            LET r == ParseF64(Trim(peak_power))
            IN  /\ peak_power_dbm' = IF r.ok THEN r.val ELSE peak_power_dbm
                /\ pc' = IF r.ok THEN "summary_row" ELSE pc
                /\ status' = IF r.ok THEN status ELSE "err"
                /\ failed_at' = failed_at
                /\ unparseable' = IF peak_power \in BadPwLines
                                  THEN unparseable \cup {<<"pw", i>>}
                                  ELSE unparseable
    /\ UNCHANGED <<mpm, plan, Counts, peak_wavelength_nm, trace_data, Files, stdout_warn, err_resp>>

(* read_line(&mut peak_power)?; parse::<f64>().unwrap_or(-100.0) *)
ReadPeakPower ==
    /\ pc = "read_mka"
    /\ status = "running"
    /\ log' = Append(log, R("osa"))
    /\ \/ /\ status' = "err"
          /\ failed_at' = Len(log')
          /\ pc' = pc
          /\ unparseable' = unparseable
          /\ peak_power_dbm' = peak_power_dbm
       \/ \E peak_power \in PwLines :
            /\ peak_power_dbm' =
                 UnwrapOr(ParseF64(Trim(peak_power)), PeakPowerFallback)
            /\ pc' = "summary_row"
            /\ status' = status
            /\ failed_at' = failed_at
            /\ unparseable' = IF peak_power \in BadPwLines
                               THEN unparseable \cup {<<"pw", i>>}
                               ELSE unparseable
    /\ UNCHANGED <<mpm, plan, Counts, peak_wavelength_nm, trace_data, Files, stdout_warn, err_resp>>

(* format!("{:.2},{:.4},{:.2}", current_ma, peak_wavelength_nm, peak_power_dbm) *)
SummaryRow(ma, wl, pw) == <<Fmt(ma, 2), Fmt(wl, 4), Fmt(pw, 2)>>

(* rows kept in memory and written out together at the last point *)
WriteSummaryRow_Batched ==
    /\ pc = "summary_row"
    /\ status = "running"
    /\ summary' = IF i = num_points - 1
                  THEN summary \o [k \in 1..num_points |->
                                     SummaryRow(CurrentMa(plan, k - 1),
                                                peak_wavelength_nm, peak_power_dbm)]
                  ELSE summary
    /\ pc' = "tra"
    /\ peak_wavelength_nm' = NoF64
    /\ peak_power_dbm' = NoF64
    /\ UNCHANGED <<mpm, plan, status, Counts, log, trace_data, traces, stdout_warn, err_resp,
                   failed_at, unparseable>>

(* writeln!(file, row).unwrap(): an unbuffered write to the File; the two  *)
(* measurements are dead afterwards                                        *)
WriteSummaryRow ==
    /\ pc = "summary_row"
    /\ status = "running"
    /\ \E ok \in BOOLEAN :
         IF ok
         THEN /\ summary' = Append(summary,
                      SummaryRow(current_ma, peak_wavelength_nm, peak_power_dbm))
              /\ pc' = "tra"
              /\ status' = status
         ELSE /\ summary' = summary
              /\ pc' = pc
              /\ status' = "panic"
    /\ peak_wavelength_nm' = NoF64
    /\ peak_power_dbm' = NoF64
    /\ UNCHANGED <<mpm, plan, Counts, log, trace_data, traces, stdout_warn, err_resp, failed_at, unparseable>>

(* osa.write_all(b"TRA?;\n") *)
QueryTrace ==
    /\ WriteAll("tra", "read_tra", W("osa", "TRA?;"))
    /\ UNCHANGED Rest

(* reader.read_line(&mut trace_data)? *)
ReadTrace ==
    /\ pc = "read_tra"
    /\ status = "running"
    /\ log' = Append(log, R("osa"))
    /\ \/ /\ status' = "err"
          /\ failed_at' = Len(log')
          /\ pc' = pc
          /\ unparseable' = unparseable
          /\ trace_data' = trace_data
       \/ \E line \in TraceLines :
            /\ trace_data' = line
            /\ pc' = "save_trace"
            /\ status' = status
            /\ failed_at' = failed_at
            /\ unparseable' = IF line \in BadTraceLines
                               THEN unparseable \cup {<<"tra", i>>}
                               ELSE unparseable
    /\ UNCHANGED <<mpm, plan, Counts, peak_wavelength_nm, peak_power_dbm, Files,
                   stdout_warn, err_resp>>

center_wl == 980

span_wl == 20

start_wl == center_wl - (span_wl \div 2)

stop_wl == center_wl + (span_wl \div 2)

TracePowerFallback == F(0 - 100, 0)

(* format!("{:.4}", start_wl + (j as f64 * wavelength_step)) with          *)
(* wavelength_step = (stop_wl - start_wl) / (n as f64 - 1.0); for n = 1    *)
(* the step is infinite and 0 * inf is NaN                                 *)
WavelengthText(j, n) ==
    IF n = 1 THEN <<"NaN", 0>>
    ELSE IF n > 1
    THEN <<"num", start_wl * 10000 + RoundDiv((stop_wl - start_wl) * 10000 * j, n - 1)>>
    ELSE <<"num", start_wl * 10000 - (stop_wl - start_wl) * 10000 * j>>

Min(a, b) == IF a < b THEN a ELSE b

(* for (j, value) in values.iter().enumerate() { if j < num_trace_points { *)
(*   writeln!("{:.4},{:.4}", wavelength, value.parse().unwrap_or(-100.0))  *)
TraceRows(line, n) ==
    LET values == Split(Trim(line))
    IN  [k \in 1..Min(Len(values), n) |->
           <<WavelengthText(k - 1, n),
             Fmt(UnwrapOr(ParseF64(values[k]), TracePowerFallback), 4)>>]

(* format!("{}/trace_{:.2}mA.csv", trace_dir, current_ma) *)
TraceFileName(ma) == <<"trace_data/trace_mA.csv", Fmt(ma, 2)[2]>>

FallbackFileName == <<"trace_data_fallback.csv", 0>>

PutFile(fs, name, content) ==
    [f \in DOMAIN fs \cup {name} |-> IF f = name THEN content ELSE fs[f]]

(* a trace file that cannot be created returned as an error, no fallback *)
SaveTrace_NoFallback ==
    /\ pc = "save_trace"
    /\ status = "running"
    /\ LET content == <<TraceHeader>> \o TraceRows(trace_data, num_trace_points)
           dirOk   == <<"trace_dir", 0>> \notin stdout_warn
       IN  IF dirOk
           THEN /\ traces' = PutFile(traces, TraceFileName(current_ma), content)
                /\ stdout_warn' = stdout_warn
                /\ status' = status
                /\ pc' = "loop"
                /\ i' = i + 1
           ELSE /\ traces' = traces
                /\ stdout_warn' = stdout_warn \cup {<<"trace_file", i>>}
                /\ status' = "err"
                /\ pc' = pc
                /\ i' = i
    /\ trace_data' = <<>>
    /\ UNCHANGED <<mpm, plan, num_points, num_trace_points, log, peak_wavelength_nm,
                   peak_power_dbm, summary, err_resp, failed_at, unparseable>>

(* lines 136-158: File::create(name), on failure warn and create the       *)
(* fallback file (unwrap), then header and rows with writeln!().unwrap();  *)
(* the file in trace_data/ can be created exactly when that directory      *)
(* could be; written counts the lines that got out before a write failed   *)
SaveTrace ==
    /\ pc = "save_trace"
    /\ status = "running"
    /\ LET content == <<TraceHeader>> \o TraceRows(trace_data, num_trace_points)
           dirOk   == <<"trace_dir", 0>> \notin stdout_warn
       IN  \E created \in {"own", "fallback", "none"} :
             /\ created = "own" <=> dirOk
             /\ stdout_warn' = IF created = "own" THEN stdout_warn
                               ELSE stdout_warn \cup {<<"trace_file", i>>}
             /\ IF created = "none"
                THEN /\ traces' = traces
                     /\ status' = "panic"
                     /\ pc' = pc
                     /\ i' = i
                ELSE \E written \in 0..Len(content) :
                       /\ traces' = PutFile(traces,
                                      IF created = "own"
                                      THEN TraceFileName(current_ma)
                                      ELSE FallbackFileName,
                                      SubSeq(content, 1, written))
                       /\ IF written = Len(content)
                          THEN /\ status' = status
                               /\ pc' = "loop"
                               /\ i' = i + 1
                          ELSE /\ status' = "panic"
                               /\ pc' = pc
                               /\ i' = i
    /\ trace_data' = <<>>
    /\ UNCHANGED <<mpm, plan, num_points, num_trace_points, log, peak_wavelength_nm,
                   peak_power_dbm, summary, err_resp, failed_at, unparseable>>

-----------------------------------------------------------------------------
(* Shutdown: lines 161-193 *)

(* the final source-off skipped when the loop printed a warning *)
FinalLaserOff_SkippedAfterWarning ==
    /\ i >= num_points
    /\ IF \E k \in 0..(num_points - 1) : <<"not_done", k>> \in stdout_warn
       THEN /\ pc = "loop"
            /\ status = "running"
            /\ pc' = "sweep_off"
            /\ UNCHANGED <<status, log, failed_at>>
       ELSE WriteAll("loop", "sweep_off", W("cld1015", "OUTPut:STATe 0"))
    /\ UNCHANGED Rest

(* cld1015.write_all(b"OUTPut:STATe 0\n") after the loop *)
FinalLaserOff ==
    /\ i >= num_points
    /\ WriteAll("loop", "sweep_off", W("cld1015", "OUTPut:STATe 0"))
    /\ UNCHANGED Rest

(* osa.write_all(b"SWEEP OFF;\n") *)
SweepOff ==
    /\ WriteAll("sweep_off", "syst_err", W("osa", "SWEEP OFF;"))
    /\ UNCHANGED Rest

(* cld1015.write_all(b"SYST:ERR?\n") *)
QuerySystErr ==
    /\ WriteAll("syst_err", "read_syst_err", W("cld1015", "SYST:ERR?"))
    /\ UNCHANGED Rest

(* a non-zero error-queue answer of the source returned as an error *)
ReadSystErr_FailsOnError ==
    /\ pc = "read_syst_err"
    /\ status = "running"
    /\ log' = Append(log, R("cld1015"))
    /\ \/ /\ status' = "err"
          /\ failed_at' = Len(log')
          /\ pc' = pc
          /\ err_resp' = err_resp
       \/ \E response \in ErrLines :
            /\ err_resp' = Append(err_resp, Trim(response))
            /\ pc' = IF Trim(response) = <<"0">> THEN "xerr" ELSE pc
            /\ status' = IF Trim(response) = <<"0">> THEN status ELSE "err"
            /\ failed_at' = failed_at
    /\ UNCHANGED <<mpm, plan, Counts, Locals, Files, stdout_warn, unparseable>>

(* the answer to SYST:ERR? read from the analyzer *)
ReadSystErr_FromOsa ==
    /\ pc = "read_syst_err"
    /\ status = "running"
    /\ log' = Append(log, R("osa"))
    /\ \/ /\ status' = "err"
          /\ failed_at' = Len(log')
          /\ pc' = pc
          /\ err_resp' = err_resp
       \/ \E response \in ErrLines :
            /\ err_resp' = Append(err_resp, Trim(response))
            /\ pc' = "xerr"
            /\ status' = status
            /\ failed_at' = failed_at
    /\ UNCHANGED <<mpm, plan, Counts, Locals, Files, stdout_warn, unparseable>>

(* reader.read_line(&mut response)?; println!(response.trim()) *)
ReadSystErr ==
    /\ pc = "read_syst_err"
    /\ status = "running"
    /\ log' = Append(log, R("cld1015"))
    /\ \/ /\ status' = "err"
          /\ failed_at' = Len(log')
          /\ pc' = pc
          /\ err_resp' = err_resp
       \/ \E response \in ErrLines :
            /\ err_resp' = Append(err_resp, Trim(response))
            /\ pc' = "xerr"
            /\ status' = status
            /\ failed_at' = failed_at
    /\ UNCHANGED <<mpm, plan, Counts, Locals, Files, stdout_warn, unparseable>>

(* osa.write_all(b"XERR?;\n") *)
QueryXerr ==
    /\ WriteAll("xerr", "read_xerr", W("osa", "XERR?;"))
    /\ UNCHANGED Rest

(* reader.read_line(&mut response)?; println!(response.trim()); Ok(()) *)
ReadXerr ==
    /\ pc = "read_xerr"
    /\ status = "running"
    /\ log' = Append(log, R("osa"))
    /\ \/ /\ status' = "err"
          /\ failed_at' = Len(log')
          /\ pc' = pc
          /\ err_resp' = err_resp
       \/ \E response \in ErrLines :
            /\ err_resp' = Append(err_resp, Trim(response))
            /\ pc' = "done"
            /\ status' = "ok"
            /\ failed_at' = failed_at
    /\ UNCHANGED <<mpm, plan, Counts, Locals, Files, stdout_warn, unparseable>>

-----------------------------------------------------------------------------

Next ==
    \/ CreateSummary
    \/ CreateTraceDir
    \/ CalcNumPoints
    \/ SetSingleSweep
    \/ SetCenterSpan
    \/ QueryMds
    \/ ReadMds
    \/ LaserOff
    \/ SettleOff
    \/ LaserOn
    \/ SettleOn
    \/ SetCurrent
    \/ Dwell
    \/ TakeSweep
    \/ ReadDone
    \/ MarkPeak
    \/ QueryPeakWl
    \/ ReadPeakWl
    \/ QueryPeakPower
    \/ ReadPeakPower
    \/ WriteSummaryRow
    \/ QueryTrace
    \/ ReadTrace
    \/ SaveTrace
    \/ FinalLaserOff
    \/ SweepOff
    \/ QuerySystErr
    \/ ReadSystErr
    \/ QueryXerr
    \/ ReadXerr

Spec == Init /\ [][Next]_vars

-----------------------------------------------------------------------------
(* The power meter driver (mpm210h.rs), taken on its own.  mpm.io is what  *)
(* the last call did on the socket, mpm.ret what it returned, mpm.before   *)
(* the stored module and port when it was called, mpm.fields the fields    *)
(* the instrument put in the line it answered.                             *)

SweepVars == <<plan, pc, status, i, num_points, num_trace_points, log,
               peak_wavelength_nm, peak_power_dbm, trace_data,
               summary, traces, stdout_warn, err_resp, failed_at, unparseable>>

NaN == [nan |-> TRUE, m |-> 0, e |-> 0]

(* x < y on f64: false when either side is NaN *)
F64Lt(x, y) ==
    /\ ~x.nan
    /\ ~y.nan
    /\ LET e == Min(x.e, y.e)
       IN  x.m * Pow10(x.e - e) < y.m * Pow10(y.e - e)

(* the arguments the callers may pass: u8 for module and port *)
U8Args == (0..5) \cup {255}

Wavelengths ==
    { F(1249999, 0 - 3), F(1250, 0), F(15501234, 0 - 4), F(1630, 0),
      F(1630001, 0 - 3), F(0, 0), F(0 - 1550, 0), NaN }

Modes == { "CONST1", "CONST2", "SWEEP1", "SWEEP2", "FREERUN", "const1", "SWEEP3", "" }

AveragingTimes ==
    { F(9, 0 - 3), F(1, 0 - 2), F(5, 0), F(10000, 0), F(1000001, 0 - 2),
      F(0 - 5, 0), NaN }

PowerUnits == { "DBm", "MW" }

(* PowerUnit::to_command_value *)
to_command_value(unit) == IF unit = "DBm" THEN "0" ELSE "1"

IdnLines == { <<"I", "D", "\n">>, <<>> }

(* lines of n fields: field k is the number k.5, or "x" *)
FieldSeqs(n) ==
    { [k \in 1..n |-> IF k \in bad THEN <<"x">> ELSE <<Digits[k + 1], ".", "5">>] :
        bad \in SUBSET (1..n) }

RECURSIVE JoinFields(_)
JoinFields(fs) ==
    IF Len(fs) = 0 THEN <<>>
    ELSE IF Len(fs) = 1 THEN fs[1]
    ELSE fs[1] \o <<",">> \o JoinFields(Tail(fs))

(* the lines the power meter may answer to READ?: one to MaxFields fields  *)
(* and a line feed, or nothing at all when the peer has closed             *)
PowerResponses ==
    { [fields |-> fs, line |-> JoinFields(fs) \o <<"\n">>] :
        fs \in UNION { FieldSeqs(n) : n \in 1..MaxFields } }
    \cup { [fields |-> << <<>> >>, line |-> <<>>] }

MW(name, module, port, text) == <<"write", name, module, port, text>>

MR == <<"read", "", 0, 0, NoArg>>

MSleep(ms) == <<"sleep", "", 0, 0, <<"ms", ms>>>>

CommandDelayMs == 10

ZeroDelayMs == 3000

MaxModule == 4

MinPort == 1

MaxPort == 4

MinWavelength == F(1250, 0)

MaxWavelength == F(1630, 0)

MinAveragingTime == F(1, 0 - 2)

MaxAveragingTime == F(10000, 0)

valid_modes == { "CONST1", "CONST2", "SWEEP1", "SWEEP2", "FREERUN" }

(* fn write_command: write_all(cmd)?; sleep(10 ms); Ok(()) *)
write_command(cmd) ==
    { [io |-> <<cmd>>, ret |-> "io"],
      [io |-> <<cmd, MSleep(CommandDelayMs)>>, ret |-> "ok"] }

(* fn query: try_clone()?; write_all(cmd)?; sleep(10 ms); read_line()?;    *)
(* Ok(response)                                                            *)
query(cmd, answers) ==
    { [io |-> <<>>, ret |-> "io", answer |-> [fields |-> <<>>, line |-> <<>>]],
      [io |-> <<cmd>>, ret |-> "io", answer |-> [fields |-> <<>>, line |-> <<>>]],
      [io |-> <<cmd, MSleep(CommandDelayMs), MR>>, ret |-> "io",
       answer |-> [fields |-> <<>>, line |-> <<>>]] }
    \cup { [io |-> <<cmd, MSleep(CommandDelayMs), MR>>, ret |-> "ok", answer |-> a] :
             a \in answers }

(* what every call records: the call, the stored module and port before it *)
Called(op, n, str, x) ==
    [mpm EXCEPT !.op = op, !.arg_n = n, !.arg_s = str, !.arg_x = x,
                !.before = <<mpm.module, mpm.port>>,
                !.io = <<>>, !.ret = "ok", !.val = NoF64,
                !.response = <<>>, !.fields = <<>>]

InvalidInput(call) == [call EXCEPT !.ret = "invalid_input"]

(* MPM210H::connect: TcpStream::connect(addr)?, the two timeouts, module 0 *)
(* and port 1, then query("*IDN?")?                                        *)
Connect ==
    /\ ~mpm.open
    /\ \/ mpm' = [Called("connect", 0, "", NoF64) EXCEPT !.ret = "io"]
       \/ \E q \in query(MW("*IDN?", 0, 0, NoArg),
                         { [fields |-> <<>>, line |-> l] : l \in IdnLines }) :
            mpm' = [Called("connect", 0, "", NoF64) EXCEPT
                      !.open = (q.ret = "ok"),
                      !.module = IF q.ret = "ok" THEN 0 ELSE mpm.module,
                      !.port = IF q.ret = "ok" THEN 1 ELSE mpm.port,
                      !.io = q.io, !.ret = q.ret, !.response = q.answer.line]
    /\ UNCHANGED SweepVars

(* MPM210H::set_module *)
SetModule ==
    /\ mpm.open
    /\ \E module \in U8Args :
         LET call == Called("set_module", module, "", NoF64)
         IN  mpm' = IF module > MaxModule THEN InvalidInput(call)
                    ELSE [call EXCEPT !.module = module]
    /\ UNCHANGED SweepVars

(* port 0 let through *)
SetPort_AcceptsZero ==
    /\ mpm.open
    /\ \E port \in U8Args :
         LET call == Called("set_port", port, "", NoF64)
         IN  mpm' = IF port > MaxPort THEN InvalidInput(call)
                    ELSE [call EXCEPT !.port = port]
    /\ UNCHANGED SweepVars

(* MPM210H::set_port *)
SetPort ==
    /\ mpm.open
    /\ \E port \in U8Args :
         LET call == Called("set_port", port, "", NoF64)
         IN  mpm' = IF port < MinPort \/ port > MaxPort THEN InvalidInput(call)
                    ELSE [call EXCEPT !.port = port]
    /\ UNCHANGED SweepVars

(* MPM210H::set_wavelength: the range check, then                          *)
(* write_command(format!("DWAV {},{},{:.3}", module, port, wavelength_nm)) *)
SetWavelength ==
    /\ mpm.open
    /\ \E wavelength_nm \in Wavelengths :
         LET call == Called("set_wavelength", 0, "", wavelength_nm)
         IN  IF F64Lt(wavelength_nm, MinWavelength) \/ F64Lt(MaxWavelength, wavelength_nm)
             THEN mpm' = InvalidInput(call)
             ELSE \E w \in write_command(MW("DWAV", mpm.module, mpm.port,
                                            Fmt(wavelength_nm, 3))) :
                    mpm' = [call EXCEPT !.io = w.io, !.ret = w.ret]
    /\ UNCHANGED SweepVars

(* MPM210H::set_measurement_mode *)
SetMeasurementMode ==
    /\ mpm.open
    /\ \E mode \in Modes :
         LET call == Called("set_measurement_mode", 0, mode, NoF64)
         IN  IF mode \notin valid_modes
             THEN mpm' = InvalidInput(call)
             ELSE \E w \in write_command(MW("WMOD", 0, 0, <<mode, 0>>)) :
                    mpm' = [call EXCEPT !.io = w.io, !.ret = w.ret]
    /\ UNCHANGED SweepVars

(* MPM210H::set_averaging_time *)
SetAveragingTime ==
    /\ mpm.open
    /\ \E time_ms \in AveragingTimes :
         LET call == Called("set_averaging_time", 0, "", time_ms)
         IN  IF F64Lt(time_ms, MinAveragingTime) \/ F64Lt(MaxAveragingTime, time_ms)
             THEN mpm' = InvalidInput(call)
             ELSE \E w \in write_command(MW("AVG", 0, 0, Fmt(time_ms, 2))) :
                    mpm' = [call EXCEPT !.io = w.io, !.ret = w.ret]
    /\ UNCHANGED SweepVars

(* MPM210H::set_power_unit *)
SetPowerUnit ==
    /\ mpm.open
    /\ \E unit \in PowerUnits :
         \E w \in write_command(MW("UNIT", 0, 0, <<to_command_value(unit), 0>>)) :
            mpm' = [Called("set_power_unit", 0, unit, NoF64) EXCEPT
                      !.io = w.io, !.ret = w.ret]
    /\ UNCHANGED SweepVars

(* MPM210H::zero: write_command("ZERO")?; sleep(3 s) *)
Zero ==
    /\ mpm.open
    /\ \E w \in write_command(MW("ZERO", 0, 0, NoArg)) :
         mpm' = [Called("zero", 0, "", NoF64) EXCEPT
                   !.io = IF w.ret = "ok" THEN Append(w.io, MSleep(ZeroDelayMs)) ELSE w.io,
                   !.ret = w.ret]
    /\ UNCHANGED SweepVars

(* the first field returned whatever the port *)
ReadPower_FirstField ==
    /\ mpm.open
    /\ \E q \in query(MW("READ?", mpm.module, 0, NoArg), PowerResponses) :
         LET call   == [Called("read_power", 0, "", NoF64) EXCEPT
                          !.io = q.io, !.response = q.answer.line,
                          !.fields = q.answer.fields]
             powers == Split(Trim(q.answer.line))
             parsed == ParseF64(powers[1])
         IN  mpm' = IF q.ret # "ok" THEN [call EXCEPT !.ret = q.ret]
                    ELSE IF Len(powers) < mpm.port
                    THEN [call EXCEPT !.ret = "invalid_data"]
                    ELSE IF parsed.ok THEN [call EXCEPT !.val = parsed.val]
                    ELSE [call EXCEPT !.ret = "invalid_data"]
    /\ UNCHANGED SweepVars

(* MPM210H::read_power: query(format!("READ? {}", module))?, then          *)
(* response.trim().split(','), the length check against port and           *)
(* powers[(port - 1) as usize].parse::<f64>().  With port = 0 the u8       *)
(* subtraction overflows or, wrapped to 255, indexes past the fields: a    *)
(* panic in either build unless the line has 256 fields.                   *)
ReadPower ==
    /\ mpm.open
    /\ \E q \in query(MW("READ?", mpm.module, 0, NoArg), PowerResponses) :
         LET call   == [Called("read_power", 0, "", NoF64) EXCEPT
                          !.io = q.io, !.response = q.answer.line,
                          !.fields = q.answer.fields]
             powers == Split(Trim(q.answer.line))
             parsed == ParseF64(powers[mpm.port])
         IN  mpm' = IF q.ret # "ok" THEN [call EXCEPT !.ret = q.ret]
                    ELSE IF Len(powers) < mpm.port
                    THEN [call EXCEPT !.ret = "invalid_data"]
                    ELSE IF mpm.port = 0 THEN [call EXCEPT !.ret = "panic"]
                    ELSE IF parsed.ok THEN [call EXCEPT !.val = parsed.val]
                    ELSE [call EXCEPT !.ret = "invalid_data"]
    /\ UNCHANGED SweepVars

(* MPM210H::check_errors: query("ERR?") *)
CheckErrors ==
    /\ mpm.open
    /\ \E q \in query(MW("ERR?", 0, 0, NoArg),
                      { [fields |-> <<>>, line |-> l] : l \in ErrLines }) :
         mpm' = [Called("check_errors", 0, "", NoF64) EXCEPT
                   !.io = q.io, !.ret = q.ret, !.response = q.answer.line]
    /\ UNCHANGED SweepVars

(* the driver before connect; the sweep is not running *)
InitMpm ==
    /\ plan = [start |-> 0, stop |-> MaxStop, step |-> 5, dwell |-> 50, e10 |-> 0]
    /\ pc = "create_summary"
    /\ status = "running"
    /\ i = 0
    /\ num_points = 0
    /\ num_trace_points = 0
    /\ log = <<>>
    /\ peak_wavelength_nm = NoF64
    /\ peak_power_dbm = NoF64
    /\ trace_data = <<>>
    /\ summary = <<>>
    /\ traces = <<>>
    /\ stdout_warn = {}
    /\ err_resp = <<>>
    /\ failed_at = 0
    /\ unparseable = {}
    /\ mpm = NoMpm

NextMpm ==
    \/ Connect
    \/ SetModule
    \/ SetPort
    \/ SetWavelength
    \/ SetMeasurementMode
    \/ SetAveragingTime
    \/ SetPowerUnit
    \/ Zero
    \/ ReadPower
    \/ CheckErrors

SpecMpm == InitMpm /\ [][NextMpm]_vars

-----------------------------------------------------------------------------
(* Vocabulary of the properties *)

OffCmd == W("cld1015", "OUTPut:STATe 0")

OnCmd == W("cld1015", "OUTPut:STATe 1")

IsIo(e) == e[1] \in {"write", "read"}

IsSetPoint(e) == e[1] = "write" /\ e[3] = "SOURce:CURRent:LEVel:IMMediate:AMPLitude"

SetPointPositions == { k \in 1..Len(log) : IsSetPoint(log[k]) }

OffPositions == { k \in 1..Len(log) : log[k] = OffCmd }

OnPositions == { k \in 1..Len(log) : log[k] = OnCmd }

MaxOf(S) == IF S = {} THEN 0 ELSE CHOOSE m \in S : \A n \in S : n <= m

MinOf(S) == IF S = {} THEN 0 ELSE CHOOSE m \in S : \A n \in S : m <= n

ShutdownPcs == {"sweep_off", "syst_err", "read_syst_err", "xerr", "read_xerr", "done"}

(* the point loop has finished and the statement after it has been run *)
PastFinalOff ==
    \/ pc \in ShutdownPcs
    \/ pc = "loop" /\ i >= num_points /\ status = "err"

(* C1: once a write to or a read from an instrument has returned an error, *)
(* the sweep has returned that error and the failing operation is the last *)
(* one issued to either instrument; so after a failure with the source ON  *)
(* no source-off command follows.                                          *)
C1_AbortOnIoError ==
    failed_at # 0 =>
        /\ status = "err"
        /\ Len(log) = failed_at
        /\ IsIo(log[failed_at])
        /\ \A k \in OffPositions : k <= failed_at

C1_Witness ==
    /\ status = "err"
    /\ failed_at = Len(log)
    /\ i >= 1
    /\ pc = "read_mkwl"
    /\ OnPositions # {}
    /\ MaxOf(OffPositions) < MaxOf(OnPositions)

(* C2: once the point loop has finished, the log holds exactly two         *)
(* source-off commands: one before the first set-point (and before the     *)
(* source-on command), one after the last set-point, whatever warnings or  *)
(* parse fallbacks happened in the loop.                                   *)
C2_FinalOffExactlyOnce ==
    PastFinalOff =>
        /\ Cardinality(OffPositions) = 2
        /\ Cardinality({ k \in OffPositions : k > MaxOf(SetPointPositions \cup OnPositions) }) = 1
        /\ Cardinality({ k \in OffPositions : k < MinOf(OnPositions) }) = 1
        /\ Cardinality(SetPointPositions) = num_points

C2_Witness ==
    /\ pc = "done"
    /\ num_points >= 2
    /\ \E k \in 0..(num_points - 1) : <<"not_done", k>> \in stdout_warn
    /\ \E k \in 0..(num_points - 1) : <<"wl", k>> \in unparseable
    /\ Cardinality(OffPositions) = 2

SetupSeq ==
    << W("osa", "SNGLS;"),
       W("osa", "CENTERWL 980NM;SPANWL 20NM;"),
       W("osa", "MDS?;"),
       R("osa"),
       OffCmd,
       Sleep(500),
       OnCmd,
       Sleep(500) >>

IsPrefix(a, b) == Len(a) <= Len(b) /\ SubSeq(b, 1, Len(a)) = a

CountOf(e) == Cardinality({ k \in 1..Len(log) : log[k] = e })

(* C3: the log starts with the analyzer setup, the MDS? query and its one  *)
(* read, source OFF, 500 ms, source ON, 500 ms, in this order; every       *)
(* set-point comes after these eight operations, and SNGLS, the span setup *)
(* and MDS? are never issued again.                                        *)
C3_SetupBeforeFirstSetPoint ==
    /\ IF Len(log) <= Len(SetupSeq) THEN IsPrefix(log, SetupSeq)
                                    ELSE IsPrefix(SetupSeq, log)
    /\ \A k \in SetPointPositions : k > Len(SetupSeq)
    /\ CountOf(W("osa", "MDS?;")) <= 1
    /\ CountOf(W("osa", "SNGLS;")) <= 1
    /\ CountOf(W("osa", "CENTERWL 980NM;SPANWL 20NM;")) <= 1
    /\ CountOf(OnCmd) <= 1

C3_Witness ==
    /\ pc = "done"
    /\ Cardinality(SetPointPositions) = 3
    /\ CountOf(W("osa", "MDS?;")) = 1

(* the eleven operations of sweep point k *)
PointSeq(k) ==
    << WA("cld1015", "SOURce:CURRent:LEVel:IMMediate:AMPLitude",
          <<"num", (plan.start + k * plan.step) * 1000>>),
       Sleep(plan.dwell),
       W("osa", "TS;DONE?;"),
       R("osa"),
       W("osa", "MKPK HI;"),
       W("osa", "MKWL?;"),
       R("osa"),
       W("osa", "MKA?;"),
       R("osa"),
       W("osa", "TRA?;"),
       R("osa") >>

PointLen == Len(PointSeq(0))

(* points 0 .. n-1, one after the other *)
RECURSIVE PointsUpTo(_)
PointsUpTo(n) == IF n <= 0 THEN <<>> ELSE PointsUpTo(n - 1) \o PointSeq(n - 1)

(* C4: after the setup, the log is point 0, point 1, ... each in the fixed *)
(* order set-point, dwell, TS;DONE? and read, MKPK HI, MKWL? and read,     *)
(* MKA? and read, TRA? and read; point k commands start + k*step (in amps, *)
(* six decimals); for step > 0 the commanded currents strictly increase.   *)
C4_PointOrder ==
    /\ LET body == SubSeq(log, Len(SetupSeq) + 1,
                          Min(Len(log), Len(SetupSeq) + num_points * PointLen))
       IN  IsPrefix(body, PointsUpTo((Len(body) + PointLen - 1) \div PointLen))
    /\ \A a, b \in SetPointPositions :
         (a < b /\ plan.step > 0) => log[a][4][2] < log[b][4][2]
    /\ Cardinality(SetPointPositions) <= num_points

C4_Witness ==
    /\ pc = "done"
    /\ plan.step > 0
    /\ Cardinality(SetPointPositions) = 3
    /\ Len(log) = Len(SetupSeq) + 3 * PointLen + 6

(* C5 (as claimed): for step > 0 the point count is                        *)
(* floor((stop - start) / step) + 1 and the last commanded current does    *)
(* not exceed stop, also when stop < start.                                *)
C5_PointCountFormula ==
    (plan.step > 0 /\ pc \notin {"create_summary", "create_trace_dir", "calc_num_points"}) =>
        /\ num_points = ((plan.stop - plan.start) \div plan.step) + 1
        /\ \A k \in SetPointPositions : log[k][4][2] <= plan.stop * 1000


InPointPcs == {"dwell", "ts_done", "read_done", "mkpk", "mkwl", "read_mkwl", "mka",
               "read_mka", "summary_row", "tra", "read_tra", "save_trace"}

RowDonePcs == {"tra", "read_tra", "save_trace"}

(* the summary row of point k has been written *)
RowWritten(k) == k < i \/ (k = i /\ pc \in RowDonePcs)

(* the first column of the summary row of point k: "{:.2}" of start + k*step *)
RowCurrent(k) == <<"num", (plan.start + k * plan.step) * 100>>

(* a stopped sweep that returned an error did so on a transport failure *)
ErrIsTransport == status = "err" => (failed_at > 0 /\ failed_at = Len(log))

(* C6: a completion answer other than "1" at point k changes nothing but   *)
(* the warning: the operations after that read are still MKPK HI, MKWL?,   *)
(* read, MKA?, read, TRA?, read; the row of point k is written; an error   *)
(* return can only come from a later transport failure; and a finished     *)
(* sweep has issued every operation and written every row.                 *)
C6_CompletionAdvisory ==
    \A k \in 0..(num_points - 1) :
        <<"not_done", k>> \in stdout_warn =>
            LET read == Len(SetupSeq) + k * PointLen + 4
                rest == SubSeq(log, read + 1, Min(Len(log), read + 7))
            IN  /\ Len(log) >= read
                /\ IsPrefix(rest, SubSeq(PointSeq(k), 5, PointLen))
                /\ ErrIsTransport
                /\ status = "err" => failed_at > read
                /\ RowWritten(k) => /\ Len(summary) >= k + 2
                                    /\ summary[k + 2][1] = RowCurrent(k)
                /\ (status = "running" /\ pc = "summary_row" /\ i = k)
                      => Len(log) = read + 5
                /\ pc = "done" => /\ status = "ok"
                                  /\ Len(log) = Len(SetupSeq) + num_points * PointLen + 6
                                  /\ Len(summary) = num_points + 1

C6_Witness ==
    /\ pc = "done"
    /\ status = "ok"
    /\ num_points = 3
    /\ <<"not_done", 0>> \in stdout_warn
    /\ <<"not_done", 1>> \notin stdout_warn
    /\ Len(summary) = 4

(* C7: after a completed sweep the summary file is the header followed by  *)
(* one row per point, in the order commanded, and nothing else; the plan   *)
(* 0, 10, 5 leaves the rows 0.00, 5.00, 10.00.                             *)
C7_SummaryFile ==
    pc = "done" =>
        /\ Len(summary) = num_points + 1
        /\ summary[1] = Header
        /\ \A k \in 0..(num_points - 1) : summary[k + 2][1] = RowCurrent(k)
        /\ (plan.start = 0 /\ plan.stop = 10 /\ plan.step = 5) =>
              [k \in 1..(Len(summary) - 1) |-> summary[k + 1][1][2]] = <<0, 500, 1000>>

C7_Witness ==
    /\ pc = "done"
    /\ plan.start = 0
    /\ plan.stop = 10
    /\ plan.step = 5
    /\ Len(summary) = 4

(* C8: whenever the sweep is at point i, running or stopped by an error or *)
(* a crash, the summary file holds the rows of the points 0 .. i-1 in      *)
(* order, right after the header.                                          *)
C8_RowsDurable ==
    (pc \in InPointPcs \cup {"loop"} \cup ShutdownPcs) =>
        /\ Len(summary) >= i + 1
        /\ summary[1] = Header
        /\ \A k \in 0..(i - 1) : summary[k + 2][1] = RowCurrent(k)

C8_Witness ==
    /\ status \in {"err", "panic"}
    /\ pc \in InPointPcs
    /\ i = 2
    /\ Len(summary) >= 3

(* C9 (as claimed): a sweep that stopped without reaching its end stopped  *)
(* on a transport write or read failure.                                   *)
C9_OnlyTransportStops ==
    status \notin {"running", "ok"} => failed_at # 0

PanicPcs == {"create_summary", "calc_num_points", "summary_row", "save_trace"}

TraceDirOk == <<"trace_dir", 0>> \notin stdout_warn

(* C9 (amended): a sweep stops early only on a transport failure or on a   *)
(* panic at an output-file operation or at the point-count overflow; a     *)
(* response that is not a number is replaced by 800 (trace length),        *)
(* 0.0 nm (peak wavelength), -100.0 dBm (peak power, each trace field) and *)
(* the point is recorded with that value.                                  *)
C9_StopsAndSentinels ==
    /\ ErrIsTransport
    /\ status = "err" => IsIo(log[failed_at])
    /\ status = "panic" => (pc \in PanicPcs /\ failed_at = 0)
    /\ (<<"mds", 0>> \in unparseable /\ status = "running") => num_trace_points = 800
    /\ \A k \in 0..(num_points - 1) :
         /\ (<<"wl", k>> \in unparseable /\ RowWritten(k))
               => summary[k + 2][2] = <<"num", 0>>
         /\ (<<"pw", k>> \in unparseable /\ RowWritten(k))
               => summary[k + 2][3] = <<"num", 0 - 10000>>
         /\ (<<"tra", k>> \in unparseable /\ k < i /\ TraceDirOk)
               => traces[<<"trace_data/trace_mA.csv", (plan.start + k * plan.step) * 100>>][3][2]
                    = <<"num", 0 - 1000000>>
         /\ (<<"tra", k>> \in unparseable /\ k = i - 1 /\ ~TraceDirOk /\ status # "panic")
               => traces[<<"trace_data_fallback.csv", 0>>][3][2] = <<"num", 0 - 1000000>>

C9_Witness ==
    /\ pc = "done"
    /\ status = "ok"
    /\ num_points >= 2
    /\ {<<"mds", 0>>, <<"wl", 0>>, <<"pw", 0>>, <<"tra", 0>>, <<"pw", 1>>} \subseteq unparseable

ShutdownSeq ==
    << OffCmd,
       W("osa", "SWEEP OFF;"),
       W("cld1015", "SYST:ERR?"),
       R("cld1015"),
       W("osa", "XERR?;"),
       R("osa") >>

(* C10: from the final source-off on, the log is OUTPut:STATe 0,           *)
(* SWEEP OFF, SYST:ERR? and one read from the source, XERR? and one read   *)
(* from the analyzer; whatever the two answers are, the sweep goes on to   *)
(* the end and returns Ok, and can only stop on a transport failure.       *)
C10_ShutdownOrder ==
    PastFinalOff =>
        LET tail == SubSeq(log, Len(SetupSeq) + num_points * PointLen + 1, Len(log))
        IN  /\ IsPrefix(tail, ShutdownSeq)
            /\ ErrIsTransport
            /\ status # "panic"
            /\ Len(err_resp) = 1 => (pc \in {"xerr", "read_xerr"} /\ Len(tail) >= 4)
            /\ Len(err_resp) = 2 => (pc = "done" /\ status = "ok")
            /\ pc = "done" => (status = "ok" /\ Len(err_resp) = 2 /\ tail = ShutdownSeq)

C10_Witness ==
    /\ pc = "done"
    /\ status = "ok"
    /\ Len(err_resp) = 2
    /\ err_resp[1] # <<"0">>
    /\ err_resp[2] = <<"0">>


QueryCmds == {"MDS?;", "TS;DONE?;", "MKWL?;", "MKA?;", "TRA?;", "SYST:ERR?", "XERR?;"}

IsWrite(e) == e[1] = "write"

IsQuery(e) == e[1] = "write" /\ e[3] \in QueryCmds

(* C11 (as claimed): every command in the log is followed by a read or a   *)
(* sleep, never directly by another command.                               *)
C11_NoBackToBack ==
    \A k \in 1..(Len(log) - 1) : IsWrite(log[k]) => ~IsWrite(log[k + 1])

(* C11 (amended): a query is followed by the read of its answer, the       *)
(* set-point by the dwell, the first source-off and the source-on by the   *)
(* 500 ms sleep; SNGLS, the span setup, MKPK HI, the final source-off and  *)
(* SWEEP OFF are followed directly by the next command.                    *)
C11_FollowedByReadOrSleepOrCommand ==
    \A k \in 1..(Len(log) - 1) :
        IsWrite(log[k]) =>
            IF IsQuery(log[k]) THEN log[k + 1] = R(log[k][2])
            ELSE IF IsSetPoint(log[k]) THEN log[k + 1] = Sleep(plan.dwell)
            ELSE IF log[k] = OnCmd \/ (log[k] = OffCmd /\ k < MinOf(OnPositions \cup {k + 1}))
                 THEN log[k + 1] = Sleep(500)
            ELSE /\ log[k][3] \in {"SNGLS;", "CENTERWL 980NM;SPANWL 20NM;", "MKPK HI;",
                                   "OUTPut:STATe 0", "SWEEP OFF;"}
                 /\ IsWrite(log[k + 1])

C11_Witness ==
    /\ pc = "done"
    /\ num_points = 2
    /\ Len(log) = Len(SetupSeq) + 2 * PointLen + 6

C15_ZeroStepFailsFast ==
    plan.step = 0 => (log = <<>> /\ status # "ok")

(* C18 (as claimed): the summary holds the row of point k only once the    *)
(* answer to the TRA? of point k has been read.                            *)
C18_RowAfterTrace ==
    pc # "create_summary" =>
        \A k \in 0..(num_points - 1) :
            Len(summary) >= k + 2 =>
                /\ Len(log) >= Len(SetupSeq) + (k + 1) * PointLen
                /\ failed_at # Len(SetupSeq) + (k + 1) * PointLen

(* C18 (amended): the row of point k is written after the peak power of    *)
(* point k has been read and before its TRA? is sent; a transport failure  *)
(* at TRA? or at its read leaves the row of that point in the file.        *)
C18_RowBeforeTrace ==
    pc # "create_summary" =>
        \A k \in 0..(num_points - 1) :
            LET base == Len(SetupSeq) + k * PointLen
            IN  /\ Len(summary) >= k + 2 =>
                     (Len(log) >= base + 9 /\ failed_at # base + 9)
                /\ Len(log) >= base + 10 =>
                     (Len(summary) >= k + 2 /\ summary[k + 2][1] = RowCurrent(k))
                /\ (status = "err" /\ pc \in {"tra", "read_tra"} /\ i = k) =>
                     Len(summary) = k + 2

C18_Witness ==
    /\ status = "err"
    /\ pc = "read_tra"
    /\ i = 1
    /\ Len(summary) = 3
    /\ <<"trace_data/trace_mA.csv", (plan.start + plan.step) * 100>> \notin DOMAIN traces

(* C19: every read is directly preceded by a query written to the same     *)
(* instrument and every query is directly followed by the read of its      *)
(* answer from that instrument, so per instrument the reads and the        *)
(* queries pair up in order and at most one query is unanswered.           *)
C19_OneOutstandingQuery ==
    /\ \A k \in 1..Len(log) :
         log[k][1] = "read" =>
            /\ k > 1
            /\ IsQuery(log[k - 1])
            /\ log[k - 1][2] = log[k][2]
    /\ \A inst \in {"osa", "cld1015"} :
         LET queries == Cardinality({ k \in 1..Len(log) : IsQuery(log[k]) /\ log[k][2] = inst })
             reads   == Cardinality({ k \in 1..Len(log) : log[k][1] = "read" /\ log[k][2] = inst })
         IN  reads <= queries /\ queries <= reads + 1

C19_Witness ==
    /\ pc = "done"
    /\ num_points = 2
    /\ Cardinality({ k \in 1..Len(log) : log[k] = R("osa") }) = 10
    /\ Cardinality({ k \in 1..Len(log) : log[k] = R("cld1015") }) = 1


-----------------------------------------------------------------------------
(* The trace mapping (lines 135-158) taken on its own: the sweep of the    *)
(* one-point plan 5..5 mA stands at the save of its trace, with every      *)
(* trace length 0..MaxN the analyzer may have answered to MDS? and every   *)
(* line of one to MaxFields fields it may have answered to TRA?.           *)

TraceResponses ==
    { JoinFields(fs) \o <<"\n">> : fs \in UNION { FieldSeqs(n) : n \in 1..MaxFields } }

InitTrace ==
    /\ plan = [start |-> 5, stop |-> 5, step |-> 5, dwell |-> 50, e10 |-> 0]
    /\ pc = "save_trace"
    /\ status = "running"
    /\ i = 0
    /\ num_points = 1
    /\ num_trace_points \in 0..MaxN
    /\ log = << W("osa", "SNGLS;"),
                W("osa", "CENTERWL 980NM;SPANWL 20NM;"),
                W("osa", "MDS?;"), R("osa"),
                W("cld1015", "OUTPut:STATe 0"), Sleep(SettleMs),
                W("cld1015", "OUTPut:STATe 1"), Sleep(SettleMs),
                WA("cld1015", "SOURce:CURRent:LEVel:IMMediate:AMPLitude",
                   AmplitudeArg(CurrentMa(plan, 0))),
                Sleep(plan.dwell),
                W("osa", "TS;DONE?;"), R("osa"),
                W("osa", "MKPK HI;"),
                W("osa", "MKWL?;"), R("osa"),
                W("osa", "MKA?;"), R("osa"),
                W("osa", "TRA?;"), R("osa") >>
    /\ peak_wavelength_nm = NoF64
    /\ peak_power_dbm = NoF64
    /\ trace_data \in TraceResponses
    /\ summary = << Header,
                    SummaryRow(CurrentMa(plan, 0), Scale10(F(98, 0 - 8), 9),
                               F(0 - 125, 0 - 1)) >>
    /\ traces = <<>>
    /\ stdout_warn \in { {}, {<<"trace_dir", 0>>} }
    /\ err_resp = <<>>
    /\ failed_at = 0
    /\ unparseable = IF \E k \in 1..Len(trace_data) : trace_data[k] = "x"
                     THEN {<<"tra", 0>>} ELSE {}
    /\ mpm = NoMpm

NextTrace == SaveTrace

SpecTrace == InitTrace /\ [][NextTrace]_vars

(* C12 (as claimed): the save of a trace of r fields with trace length n   *)
(* writes the header and min(r, n) rows; row j carries the wavelength      *)
(* 970 + j * 20 / (n - 1) nm and field j, both to four decimals (field j   *)
(* is the number (j + 1).5, or -100 where it is not a number).             *)
C12_RowsAtWavelengths ==
    [][ (pc = "save_trace" /\ pc' = "loop") =>
          LET r    == Cardinality({ k \in 1..Len(trace_data) : trace_data[k] = "," }) + 1
              n    == num_trace_points
              rows == IF r < n THEN r ELSE n
              file == traces'[IF <<"trace_dir", 0>> \in stdout_warn
                              THEN <<"trace_data_fallback.csv", 0>>
                              ELSE <<"trace_data/trace_mA.csv", 500>>]
              bad(j) == \E k \in 1..Len(trace_data) :
                           /\ trace_data[k] = "x"
                           /\ Cardinality({ c \in 1..k : trace_data[c] = "," }) = j
          IN  /\ Len(file) = rows + 1
              /\ \A j \in 0..(rows - 1) :
                   /\ file[j + 2][1] =
                         <<"num", 9700000 + (IF j = 0 THEN 0
                                             ELSE RoundDiv(j * 200000, n - 1))>>
                   /\ file[j + 2][2] =
                         <<"num", IF bad(j) THEN 0 - 1000000 ELSE (10 * (j + 1) + 5) * 1000>>
      ]_vars

-----------------------------------------------------------------------------
(* The sweep with a step below the two decimals of the file names: start,  *)
(* stop and step in units of 0.001 mA.                                     *)

FinePlans == [start : {0}, stop : {2}, step : {0, 2}, dwell : Dwells, e10 : {0 - 3}]

InitFine ==
    /\ plan \in FinePlans
    /\ pc = "create_summary"
    /\ status = "running"
    /\ i = 0
    /\ num_points = 0
    /\ num_trace_points = 0
    /\ log = <<>>
    /\ peak_wavelength_nm = NoF64
    /\ peak_power_dbm = NoF64
    /\ trace_data = <<>>
    /\ summary \in OldSummaries
    /\ traces = <<>>
    /\ stdout_warn = {}
    /\ err_resp = <<>>
    /\ failed_at = 0
    /\ unparseable = {}
    /\ mpm = NoMpm

SpecFine == InitFine /\ [][Next]_vars

(* C14 (as claimed): after a completed sweep in which every trace file was *)
(* created under its own name there are as many trace files as points.     *)
C14_OneFilePerPoint ==
    (pc = "done" /\ status = "ok" /\ stdout_warn \cap {<<"trace_dir", 0>>, <<"trace_file", 0>>, <<"trace_file", 1>>, <<"trace_file", 2>>} = {})
        => Cardinality(DOMAIN traces) = num_points

-----------------------------------------------------------------------------
(* Properties of the power meter driver *)

IsMpmWrite(e) == e[1] = "write"

MpmWrites == { k \in 1..Len(mpm.io) : IsMpmWrite(mpm.io[k]) }

MpmReads == { k \in 1..Len(mpm.io) : mpm.io[k] = MR }

(* lo <= x <= hi on decimals; no NaN is in a range *)
InClosed(x, lo, hi) == ~x.nan /\ ~F64Lt(x, lo) /\ ~F64Lt(hi, x)

ArgAllowed ==
    CASE mpm.op = "set_module" -> mpm.arg_n \in 0..4
      [] mpm.op = "set_port" -> mpm.arg_n \in 1..4
      [] mpm.op = "set_wavelength" -> InClosed(mpm.arg_x, F(1250, 0), F(1630, 0))
      [] mpm.op = "set_measurement_mode" ->
            mpm.arg_s \in {"CONST1", "CONST2", "SWEEP1", "SWEEP2", "FREERUN"}
      [] mpm.op = "set_averaging_time" -> InClosed(mpm.arg_x, F(1, 0 - 2), F(10000, 0))
      [] OTHER -> TRUE

(* C16 (as claimed): a setter called with an argument outside its range    *)
(* or set returns invalid-input, writes nothing and leaves module and port *)
(* as they were; set_wavelength, set_measurement_mode and                  *)
(* set_averaging_time called with an allowed argument write one command.   *)
C16_SettersValidate ==
    mpm.op \in {"set_module", "set_port", "set_wavelength", "set_measurement_mode",
                "set_averaging_time"} =>
        IF ArgAllowed
        THEN /\ mpm.ret \in {"ok", "io"}
             /\ mpm.op \in {"set_wavelength", "set_measurement_mode", "set_averaging_time"}
                   => Cardinality(MpmWrites) = 1
        ELSE /\ mpm.ret = "invalid_input"
             /\ mpm.io = <<>>
             /\ <<mpm.module, mpm.port>> = mpm.before

(* C17: read_power writes at most one command, READ? with the stored       *)
(* module, and reads at most one line after it; when it returns a value    *)
(* it has written once and read once and the value is that of field port   *)
(* of the line; when the line was read and has fewer than port fields or   *)
(* field port is not a number it returns invalid-data and no value.        *)
C17_ReadPowerField ==
    mpm.op = "read_power" =>
        LET hasField == mpm.port <= Len(mpm.fields)
            isNumber == hasField /\
                        mpm.fields[mpm.port] = <<Digits[mpm.port + 1], ".", "5">>
        IN  /\ <<mpm.module, mpm.port>> = mpm.before
            /\ mpm.ret \in {"ok", "invalid_data", "io"}
            /\ \A k \in MpmWrites :
                 k = 1 /\ mpm.io[k] = <<"write", "READ?", mpm.module, 0, NoArg>>
            /\ Cardinality(MpmReads) <= 1
            /\ MpmReads # {} => (MpmWrites # {} /\ MpmReads = {Len(mpm.io)})
            /\ mpm.ret # "io" => (Cardinality(MpmWrites) = 1 /\ Cardinality(MpmReads) = 1)
            /\ mpm.ret = "ok" =>
                 (isNumber /\ mpm.val = F(10 * mpm.port + 5, 0 - 1))
            /\ (mpm.ret # "io" /\ ~isNumber) =>
                 (mpm.ret = "invalid_data" /\ mpm.val = NoF64)

C17_Witness ==
    /\ mpm.op = "read_power"
    /\ mpm.ret = "ok"
    /\ mpm.module = 2
    /\ mpm.port = 3
    /\ Len(mpm.fields) = 4
    /\ mpm.fields[1] = <<"x">>
    /\ mpm.val = F(35, 0 - 1)

(* C20: once connected the stored module is in 0..4 and the stored port in *)
(* 1..4 whatever set_module and set_port were given; read_power never      *)
(* panics on its index; every DWAV carries a module in 0..4 and a port in  *)
(* 1..4 and every READ? a module in 0..4.                                  *)
C20_ModulePortInRange ==
    mpm.open =>
        /\ mpm.module \in 0..4
        /\ mpm.port \in 1..4
        /\ mpm.ret # "panic"
        /\ (mpm.op = "read_power" /\ mpm.ret = "invalid_data" /\ mpm.port <= Len(mpm.fields))
              => mpm.fields[mpm.port] \in {<<"x">>, <<>>}
        /\ \A k \in MpmWrites :
             /\ mpm.io[k][2] = "DWAV" => (mpm.io[k][3] \in 0..4 /\ mpm.io[k][4] \in 1..4)
             /\ mpm.io[k][2] = "READ?" => mpm.io[k][3] \in 0..4

C20_Witness ==
    /\ mpm.open
    /\ mpm.op = "set_wavelength"
    /\ mpm.ret = "ok"
    /\ mpm.module = 4
    /\ mpm.port = 4
    /\ mpm.io[1] = <<"write", "DWAV", 4, 4, <<"num", 1550123>>>>

====
